---------------------------- MODULE Spec2Model ----------------------------
(***************************************************************************)
(* A model of pitchy (src/unnamed/part_012): the Autocorrelator, the       *)
(* PitchDetector, the key-maximum scanner, the parabolic refiner and       *)
(* ceilPow2.                                                               *)
(*                                                                         *)
(* Numbers.  A JavaScript number is modelled as an exact fraction n/d in   *)
(* lowest terms with d > 0, extended by the three non-finite values the    *)
(* code can meet: +Infinity = 1/0, -Infinity = -1/0 and NaN = 0/0.  The    *)
(* operators below follow IEEE 754 on these values (NaN compares false,    *)
(* x/0 is an infinity or NaN, 0 * Infinity is NaN); rounding and signed    *)
(* zeros are not modelled, so every property is one of exact arithmetic.   *)
(***************************************************************************)
EXTENDS Integers, Sequences, FiniteSets, TLC

\* ------------------------------------------------------------------ bounds

\* The largest input length N a constructed object is given in Spec and in
\* SpecConfig (object lifecycles).
MaxLen == 2

\* The largest input length N of a call explored by SpecCall.
MaxN == 7

\* The largest argument up to which SpecPow2 hands every integer to ceilPow2.
MaxPow2Arg == 257

\* The largest array length explored by SpecScan.
MaxScanLen == 7

\* Sample values of the windows handed to findPitch and autocorrelate.
Amplitudes == {-1, 0, 1}

\* ----------------------------------------------------------------- numbers

Abs(i) == IF i < 0 THEN -i ELSE i

Sign(i) == IF i < 0 THEN -1 ELSE IF i > 0 THEN 1 ELSE 0

RECURSIVE GCD(_, _)
GCD(a, b) == IF b = 0 THEN a ELSE GCD(b, a % b)

\* The number n/d (d >= 0) in lowest terms; d = 0 gives an infinity or NaN.
Num(n, d) ==
    IF d = 0 THEN [n |-> Sign(n), d |-> 0]
    ELSE LET g == GCD(Abs(n), d) IN [n |-> n \div g, d |-> d \div g]

FromInt(i) == [n |-> i, d |-> 1]

Zero == FromInt(0)

One == FromInt(1)

NaN == [n |-> 0, d |-> 0]

Infinity == [n |-> 1, d |-> 0]

NegInfinity == [n |-> -1, d |-> 0]

\* Number.isFinite
IsFinite(x) == x.d # 0

IsNaN(x) == x.d = 0 /\ x.n = 0

Neg(x) == [n |-> -x.n, d |-> x.d]

Add(x, y) ==
    IF IsNaN(x) \/ IsNaN(y) THEN NaN
    ELSE IF ~IsFinite(x) THEN (IF ~IsFinite(y) /\ y.n # x.n THEN NaN ELSE x)
    ELSE IF ~IsFinite(y) THEN y
    ELSE IF x.d = 1 /\ y.d = 1 THEN [n |-> x.n + y.n, d |-> 1]
    ELSE LET g == GCD(x.d, y.d)
         IN  Num(x.n * (y.d \div g) + y.n * (x.d \div g), (x.d \div g) * y.d)

Sub(x, y) == Add(x, Neg(y))

Mul(x, y) ==
    IF ~IsFinite(x) \/ ~IsFinite(y) THEN Num(x.n * y.n, 0)
    ELSE IF x.d = 1 /\ y.d = 1 THEN [n |-> x.n * y.n, d |-> 1]
    ELSE LET g1 == GCD(Abs(x.n), y.d)
             g2 == GCD(Abs(y.n), x.d)
         IN  Num((x.n \div g1) * (y.n \div g2), (x.d \div g2) * (y.d \div g1))

\* 1 / x
Recip(x) ==
    IF x.n = 0 THEN (IF x.d = 0 THEN NaN ELSE Infinity)
    ELSE IF x.n > 0 THEN [n |-> x.d, d |-> x.n]
    ELSE [n |-> -x.d, d |-> -x.n]

Div(x, y) == Mul(x, Recip(y))

\* x < y
Lt(x, y) ==
    IF IsNaN(x) \/ IsNaN(y) THEN FALSE
    ELSE IF x = y THEN FALSE
    ELSE IF ~IsFinite(x) THEN x.n < 0
    ELSE IF ~IsFinite(y) THEN y.n > 0
    ELSE x.n * y.d < y.n * x.d

\* x <= y
Le(x, y) == ~IsNaN(x) /\ ~IsNaN(y) /\ (x = y \/ Lt(x, y))

Gt(x, y) == Lt(y, x)

Ge(x, y) == Le(y, x)

\* Math.min(x, y)
MathMin(x, y) ==
    IF IsNaN(x) \/ IsNaN(y) THEN NaN ELSE IF Lt(y, x) THEN y ELSE x

\* Math.max(...s)
RECURSIVE MathMax(_)
MathMax(s) ==
    IF s = <<>> THEN NegInfinity
    ELSE LET rest == MathMax(Tail(s))
         IN  IF IsNaN(Head(s)) \/ IsNaN(rest) THEN NaN
             ELSE IF Lt(Head(s), rest) THEN rest ELSE Head(s)

\* Math.sqrt(q) < v, decided without the root: for q >= 0 and v > 0 it is
\* q < v * v; the root of a negative number or of NaN is NaN.
SqrtLt(q, v) ==
    IF IsNaN(q) \/ IsNaN(v) \/ Lt(q, Zero) THEN FALSE
    ELSE IF ~Gt(v, Zero) THEN FALSE
    ELSE Lt(q, Mul(v, v))

RECURSIVE IntPow(_, _)
IntPow(b, e) == IF e = 0 THEN 1 ELSE b * IntPow(b, e - 1)

\* 10 ** e for an integer exponent e (the only exponents with an exact value)
Pow10(e) ==
    CASE IsFinite(e) /\ e.d = 1 /\ e.n >= 0 -> FromInt(IntPow(10, e.n))
      [] IsFinite(e) /\ e.d = 1 /\ e.n < 0 -> Num(1, IntPow(10, -e.n))


\* ------------------------------------------------------------------ arrays

\* Arrays are functions on 0 .. length-1, so indices are the source's.
Length(a) == Cardinality(DOMAIN a)

ArrayOf(len, v) == [i \in 0 .. len - 1 |-> v]

Empty == ArrayOf(0, Zero)

\* The sum of f[lo] .. f[hi] of an array of numbers
RECURSIVE SumRange(_, _, _)
SumRange(f, lo, hi) ==
    IF lo > hi THEN Zero ELSE Add(f[lo], SumRange(f, lo + 1, hi))

\* --------------------------------------------------------------- ceilPow2

RECURSIVE BitOr(_, _)
BitOr(a, b) ==
    IF a = 0 THEN b
    ELSE IF b = 0 THEN a
    ELSE (IF a % 2 = 1 \/ b % 2 = 1 THEN 1 ELSE 0) + 2 * BitOr(a \div 2, b \div 2)

ShiftRight(v, k) == v \div IntPow(2, k)

\* ceilPow2 without the decrement v-- before the shifts
ceilPow2NoDecrement(v) ==
    LET v0 == v
        v1 == BitOr(v0, ShiftRight(v0, 1))
        v2 == BitOr(v1, ShiftRight(v1, 2))
        v3 == BitOr(v2, ShiftRight(v2, 4))
        v4 == BitOr(v3, ShiftRight(v3, 8))
        v5 == BitOr(v4, ShiftRight(v4, 16))
    IN  v5 + 1

\* ceilPow2(v), for 1 <= v <= 2^30 where the 32-bit operations do not wrap
ceilPow2(v) ==
    LET v0 == v - 1
        v1 == BitOr(v0, ShiftRight(v0, 1))
        v2 == BitOr(v1, ShiftRight(v1, 2))
        v3 == BitOr(v2, ShiftRight(v2, 4))
        v4 == BitOr(v3, ShiftRight(v3, 8))
        v5 == BitOr(v4, ShiftRight(v4, 16))
    IN  v5 + 1

\* -------------------------------------------------------------------- state

VARIABLES
    kind,               \* "none" before construction, else the class constructed
    bufferSupplier,     \* the flavour of the buffers the supplier creates
    inputLength,        \* Autocorrelator._inputLength
    fftSize,            \* Autocorrelator._fft.size
    paddedInputBuffer,  \* Autocorrelator._paddedInputBuffer
    transformBuffer,    \* Autocorrelator._transformBuffer
    inverseBuffer,      \* Autocorrelator._inverseBuffer
    nsdfBuffer,         \* PitchDetector._nsdfBuffer
    clarityThreshold,   \* PitchDetector._clarityThreshold
    minVolumeAbsolute,  \* PitchDetector._minVolumeAbsolute
    maxInputAmplitude,  \* PitchDetector._maxInputAmplitude
    op,                 \* the last operation called ("none": nothing yet)
    arg,                \* the argument of the last setter or constructor call
    input,              \* the window of the last (or the pending) call
    sampleRate,         \* the sample rate of the last (or the pending) call
    threw,              \* "none", or the error the last operation failed with
    supplied,           \* the lengths the last operation asked bufferSupplier for
    result,             \* what the last operation returned (<<>>: nothing)
    outputBuffer,       \* the output buffer of the last autocorrelate call
    probe               \* what the last findPitch computed on its way

object == <<kind, bufferSupplier, inputLength, fftSize>>

buffers == <<paddedInputBuffer, transformBuffer, inverseBuffer, nsdfBuffer>>

config == <<clarityThreshold, minVolumeAbsolute, maxInputAmplitude>>

call == <<op, arg, input, sampleRate, threw, supplied, result, outputBuffer, probe>>

vars == <<object, buffers, config, call>>

\* probe of an operation that is no findPitch call
NoProbe ==
    [gated |-> FALSE, divisors |-> <<>>, keyMaximumIndices |-> <<>>,
     nMax |-> Zero, resultIndex |-> -1, a |-> Zero, refined |-> <<>>]

\* What bufferSupplier(length) returns: a typed array is zero-filled, and an
\* Array(length) holds holes, which read as undefined (NaN in arithmetic).
NewBuffer(flavour, length) ==
    ArrayOf(length, IF flavour = "Float64Array" THEN Zero ELSE NaN)

\* A frequency-domain buffer is kept symbolically: form "raw" holds literal
\* numbers, "half", "full" and "power" stand for the half spectrum, the
\* completed spectrum and the squared magnitudes of the spectrum of the real
\* signal in data.
RawSpectrum(a) == [form |-> "raw", data |-> a]


\* ---------------------------------------------------------- FFT collaborator

\* fft.js is an external library: its three operations are modelled from
\* the contract of the FFT collaborator, not from code.

\* realTransform(out, in): out holds the half spectrum of in.
RealTransform(in) == [form |-> "half", data |-> in]

\* completeSpectrum(buf): fills in the conjugate-symmetric half.
CompleteSpectrum(tb) ==
    IF tb.form = "half" THEN [form |-> "full", data |-> tb.data] ELSE tb

\* The circular autocorrelation of x: c[t] = SUM_j x[j] * x[(j + t) mod n].
CircularAutocorrelation(x) ==
    LET n == Length(x)
    IN  [t \in 0 .. n - 1 |->
            SumRange([j \in 0 .. n - 1 |-> Mul(x[j], x[(j + t) % n])], 0, n - 1)]

\* A real signal as interleaved complex numbers (re, im = 0)
Interleave(x) ==
    [i \in 0 .. 2 * Length(x) - 1 |-> IF i % 2 = 0 THEN x[i \div 2] ELSE Zero]

\* inverseTransform(out, in): the inverse transform of a complete spectrum is
\* the signal itself, and the inverse transform of the squared magnitudes of
\* a spectrum is the circular autocorrelation of its signal (the correlation
\* theorem); of anything else nothing is known, and it is NaN here.
InverseTransform(out, tb) ==
    CASE tb.form = "power" -> Interleave(CircularAutocorrelation(tb.data))
      [] tb.form = "full" -> Interleave(tb.data)
      [] OTHER -> [i \in DOMAIN out |-> NaN]

\* ------------------------------------------------------------ Autocorrelator

\* Step 0 of autocorrelate: the input, then zeros
PadInput(buffer, in) ==
    LET length == Length(in)
    IN  [i \in DOMAIN buffer |-> IF i < length THEN in[i] ELSE Zero]

\* Step 2 of autocorrelate: each bin (re, im) becomes (re^2 + im^2, 0)
MultiplyByConjugate(tb) ==
    CASE tb.form = "full" -> [form |-> "power", data |-> tb.data]
      [] tb.form = "raw" ->
            [form |-> "raw",
             data |-> [i \in DOMAIN tb.data |->
                         IF i % 2 = 0
                         THEN Add(Mul(tb.data[i], tb.data[i]),
                                  Mul(tb.data[i + 1], tb.data[i + 1]))
                         ELSE Zero]]
      [] OTHER -> [form |-> "raw", data |-> [i \in 0 .. 2 * Length(tb.data) - 1 |-> NaN]]

\* The last loop of autocorrelate with += in place of =: the lags are added
\* to what the output buffer held
CopyLagsAccumulating(output, inverse, length) ==
    [i \in DOMAIN output |->
        IF i < length THEN Add(output[i], inverse[2 * i]) ELSE output[i]]

\* The last loop of autocorrelate: output[i] = inverse[2 * i] for i < length
CopyLags(output, inverse, length) ==
    [i \in DOMAIN output |-> IF i < length THEN inverse[2 * i] ELSE output[i]]

\* Steps 1 and 2 of autocorrelate on the padded input
PowerSpectrum(padded) ==
    MultiplyByConjugate(CompleteSpectrum(RealTransform(padded)))

\* What autocorrelate leaves once the inverse transform is made
AutocorrelateOutput(in, output, padded, tb, inverse) ==
    [threw |-> "none", padded |-> padded, transform |-> tb,
     inverse |-> inverse, output |-> CopyLags(output, inverse, Length(in))]

\* Step 3 of autocorrelate on the multiplied spectrum tb
AutocorrelateInverse(in, output, padded, tb) ==
    AutocorrelateOutput(in, output, padded, tb,
                        InverseTransform(inverseBuffer, tb))

\* Steps 1 to 3 of autocorrelate on the padded input
AutocorrelatePadded(in, output, padded) ==
    AutocorrelateInverse(in, output, padded, PowerSpectrum(padded))

\* autocorrelate with the length check made after step 0: the input is
\* copied into the padded buffer before the error is thrown
autocorrelateCheckingLate(in, output) ==
    IF Length(in) # inputLength
    THEN [threw |-> "WrongLength", padded |-> PadInput(paddedInputBuffer, in),
          transform |-> transformBuffer, inverse |-> inverseBuffer,
          output |-> output]
    ELSE AutocorrelatePadded(in, output, PadInput(paddedInputBuffer, in))

\* autocorrelate(in, output) on the current buffers: whether it throws, and
\* the buffers and the output it leaves.
autocorrelate(in, output) ==
    IF Length(in) # inputLength
    THEN [threw |-> "WrongLength", padded |-> paddedInputBuffer,
          transform |-> transformBuffer, inverse |-> inverseBuffer,
          output |-> output]
    ELSE AutocorrelatePadded(in, output, PadInput(paddedInputBuffer, in))

\* ------------------------------------------------------ getKeyMaximumIndices

\* The scanning loop's iteration with the negative crossing pushing maxIndex
\* without the test maxIndex !== -1
ScanStepUnchecked(a, i, s) ==
    IF Le(a[i - 1], Zero) /\ Gt(a[i], Zero)
    THEN [s EXCEPT !.lookingForMaximum = TRUE, !.maxIndex = i, !.max = a[i]]
    ELSE IF Gt(a[i - 1], Zero) /\ Le(a[i], Zero)
    THEN [s EXCEPT !.lookingForMaximum = FALSE,
                   !.keyIndices = Append(s.keyIndices, s.maxIndex)]
    ELSE IF s.lookingForMaximum /\ Gt(a[i], s.max)
    THEN [s EXCEPT !.max = a[i], !.maxIndex = i]
    ELSE s

\* The scanning loop's iteration with >= in place of > in the inner update:
\* the last of several equal maxima wins
ScanStepLastMaximum(a, i, s) ==
    IF Le(a[i - 1], Zero) /\ Gt(a[i], Zero)
    THEN [s EXCEPT !.lookingForMaximum = TRUE, !.maxIndex = i, !.max = a[i]]
    ELSE IF Gt(a[i - 1], Zero) /\ Le(a[i], Zero)
    THEN [s EXCEPT !.lookingForMaximum = FALSE,
                   !.keyIndices = IF s.maxIndex # -1
                                  THEN Append(s.keyIndices, s.maxIndex)
                                  ELSE s.keyIndices]
    ELSE IF s.lookingForMaximum /\ Ge(a[i], s.max)
    THEN [s EXCEPT !.max = a[i], !.maxIndex = i]
    ELSE s

\* The scanning loop's iteration with a positive crossing that sets max but
\* leaves maxIndex as it was
ScanStepKeepingIndex(a, i, s) ==
    IF Le(a[i - 1], Zero) /\ Gt(a[i], Zero)
    THEN [s EXCEPT !.lookingForMaximum = TRUE, !.max = a[i]]
    ELSE IF Gt(a[i - 1], Zero) /\ Le(a[i], Zero)
    THEN [s EXCEPT !.lookingForMaximum = FALSE,
                   !.keyIndices = IF s.maxIndex # -1
                                  THEN Append(s.keyIndices, s.maxIndex)
                                  ELSE s.keyIndices]
    ELSE IF s.lookingForMaximum /\ Gt(a[i], s.max)
    THEN [s EXCEPT !.max = a[i], !.maxIndex = i]
    ELSE s

\* One iteration of the scanning loop at index i
ScanStep(a, i, s) ==
    IF Le(a[i - 1], Zero) /\ Gt(a[i], Zero)
    THEN [s EXCEPT !.lookingForMaximum = TRUE, !.maxIndex = i, !.max = a[i]]
    ELSE IF Gt(a[i - 1], Zero) /\ Le(a[i], Zero)
    THEN [s EXCEPT !.lookingForMaximum = FALSE,
                   !.keyIndices = IF s.maxIndex # -1
                                  THEN Append(s.keyIndices, s.maxIndex)
                                  ELSE s.keyIndices]
    ELSE IF s.lookingForMaximum /\ Gt(a[i], s.max)
    THEN [s EXCEPT !.max = a[i], !.maxIndex = i]
    ELSE s

RECURSIVE ScanFrom(_, _, _)
ScanFrom(a, i, s) ==
    IF i < Length(a) - 1 THEN ScanFrom(a, i + 1, ScanStep(a, i, s)) ELSE s

\* The scanner reporting the candidate it holds when the loop ends while it
\* is still looking for a maximum
getKeyMaximumIndicesFlushing(a) ==
    LET s == ScanFrom(a, 1, [keyIndices |-> <<>>, lookingForMaximum |-> FALSE,
                             max |-> NegInfinity, maxIndex |-> -1])
    IN  IF s.lookingForMaximum THEN Append(s.keyIndices, s.maxIndex)
        ELSE s.keyIndices

\* The scanner with lookingForMaximum initialised to true: the run of
\* positive values from index 0 on is scanned as a lobe
getKeyMaximumIndicesLookingAtStart(a) ==
    ScanFrom(a, 1, [keyIndices |-> <<>>, lookingForMaximum |-> TRUE,
                    max |-> NegInfinity, maxIndex |-> -1]).keyIndices

getKeyMaximumIndices(a) ==
    ScanFrom(a, 1, [keyIndices |-> <<>>, lookingForMaximum |-> FALSE,
                    max |-> NegInfinity, maxIndex |-> -1]).keyIndices

\* --------------------------------------------------------- refineResultIndex

Two == FromInt(2)

\* The coefficient a = y0 / 2 - y1 + y2 / 2 of the parabola
ParabolaA(y0, y1, y2) == Add(Sub(Div(y0, Two), y1), Div(y2, Two))

\* refineResultIndex with xMax = -b / a, without the factor 2
refineResultIndexUnhalved(index, data) ==
    IF index \notin DOMAIN data \/ index - 1 \notin DOMAIN data
       \/ index + 1 \notin DOMAIN data
    THEN <<NaN, NaN>>
    ELSE LET x0 == FromInt(index - 1)
             x1 == FromInt(index)
             x2 == FromInt(index + 1)
             y0 == data[index - 1]
             y1 == data[index]
             y2 == data[index + 1]
             a == ParabolaA(y0, y1, y2)
             b == Sub(Add(Mul(Neg(Div(y0, Two)), Add(x1, x2)),
                          Mul(y1, Add(x0, x2))),
                      Mul(Div(y2, Two), Add(x0, x1)))
             c == Add(Sub(Div(Mul(Mul(y0, x1), x2), Two),
                          Mul(Mul(y1, x0), x2)),
                      Div(Mul(Mul(y2, x0), x1), Two))
             xMax == Div(Neg(b), a)
             yMax == Add(Add(Mul(Mul(a, xMax), xMax), Mul(b, xMax)), c)
         IN  <<xMax, yMax>>

\* refineResultIndex(index, data) = [xMax, yMax]; index -1 stands for the
\* undefined that Array.prototype.find returns when nothing matches.
refineResultIndex(index, data) ==
    IF index \notin DOMAIN data \/ index - 1 \notin DOMAIN data
       \/ index + 1 \notin DOMAIN data
    THEN <<NaN, NaN>>
    ELSE LET x0 == FromInt(index - 1)
             x1 == FromInt(index)
             x2 == FromInt(index + 1)
             y0 == data[index - 1]
             y1 == data[index]
             y2 == data[index + 1]
             a == ParabolaA(y0, y1, y2)
             b == Sub(Add(Mul(Neg(Div(y0, Two)), Add(x1, x2)),
                          Mul(y1, Add(x0, x2))),
                      Mul(Div(y2, Two), Add(x0, x1)))
             c == Add(Sub(Div(Mul(Mul(y0, x1), x2), Two),
                          Mul(Mul(y1, x0), x2)),
                      Div(Mul(Mul(y2, x0), x1), Two))
             xMax == Div(Neg(b), Mul(Two, a))
             yMax == Add(Add(Mul(Mul(a, xMax), xMax), Mul(b, xMax)), c)
         IN  <<xMax, yMax>>


\* ------------------------------------------------------------- PitchDetector

\* _belowMinimumVolume with <= in place of <: a window at exactly the
\* minimum volume is gated too
belowMinimumVolumeInclusive(in) ==
    IF minVolumeAbsolute = Zero THEN FALSE
    ELSE LET squareSum ==
                 SumRange([i \in DOMAIN in |-> Mul(in[i], in[i])], 0, Length(in) - 1)
         IN  Le(Div(squareSum, FromInt(Length(in))),
                Mul(minVolumeAbsolute, minVolumeAbsolute))

\* _belowMinimumVolume(in)
belowMinimumVolume(in) ==
    IF minVolumeAbsolute = Zero THEN FALSE
    ELSE LET squareSum ==
                 SumRange([i \in DOMAIN in |-> Mul(in[i], in[i])], 0, Length(in) - 1)
         IN  SqrtLt(Div(squareSum, FromInt(Length(in))), minVolumeAbsolute)

\* The first loop of _nsdf without the condition m > 0
RECURSIVE NsdfLoopUnguarded(_, _, _, _, _)
NsdfLoopUnguarded(buf, m, i, in, divisors) ==
    IF i < Length(buf)
    THEN NsdfLoopUnguarded([buf EXCEPT ![i] = Div(Mul(Two, buf[i]), m)],
                           Sub(m, Add(Mul(in[i], in[i]),
                                      Mul(in[Length(in) - i - 1],
                                          in[Length(in) - i - 1]))),
                           i + 1, in, Append(divisors, m))
    ELSE [buf |-> buf, m |-> m, i |-> i, divisors |-> divisors]

\* The first loop of _nsdf subtracting input[i] ** 2 only, without the square
\* of the sample at the other end of the window
RECURSIVE NsdfLoopOneSided(_, _, _, _, _)
NsdfLoopOneSided(buf, m, i, in, divisors) ==
    IF i < Length(buf) /\ Gt(m, Zero)
    THEN NsdfLoopOneSided([buf EXCEPT ![i] = Div(Mul(Two, buf[i]), m)],
                          Sub(m, Mul(in[i], in[i])),
                          i + 1, in, Append(divisors, m))
    ELSE [buf |-> buf, m |-> m, i |-> i, divisors |-> divisors]

\* The first loop of _nsdf with m += in place of m -=
RECURSIVE NsdfLoopAdding(_, _, _, _, _)
NsdfLoopAdding(buf, m, i, in, divisors) ==
    IF i < Length(buf) /\ Gt(m, Zero)
    THEN NsdfLoopAdding([buf EXCEPT ![i] = Div(Mul(Two, buf[i]), m)],
                        Add(m, Add(Mul(in[i], in[i]),
                                   Mul(in[Length(in) - i - 1],
                                       in[Length(in) - i - 1]))),
                        i + 1, in, Append(divisors, m))
    ELSE [buf |-> buf, m |-> m, i |-> i, divisors |-> divisors]

\* The first loop of _nsdf with the condition m >= 0 in place of m > 0: a
\* division is made at the lag where m has reached 0
RECURSIVE NsdfLoopDividingAtZero(_, _, _, _, _)
NsdfLoopDividingAtZero(buf, m, i, in, divisors) ==
    IF i < Length(buf) /\ Ge(m, Zero)
    THEN NsdfLoopDividingAtZero([buf EXCEPT ![i] = Div(Mul(Two, buf[i]), m)],
                                Sub(m, Add(Mul(in[i], in[i]),
                                           Mul(in[Length(in) - i - 1],
                                               in[Length(in) - i - 1]))),
                                i + 1, in, Append(divisors, m))
    ELSE [buf |-> buf, m |-> m, i |-> i, divisors |-> divisors]

\* The first loop of _nsdf from iteration i on: buf[i] = 2 * buf[i] / m while
\* i < length and m > 0; divisors collects the m of every division made.
RECURSIVE NsdfLoop(_, _, _, _, _)
NsdfLoop(buf, m, i, in, divisors) ==
    IF i < Length(buf) /\ Gt(m, Zero)
    THEN NsdfLoop([buf EXCEPT ![i] = Div(Mul(Two, buf[i]), m)],
                  Sub(m, Add(Mul(in[i], in[i]),
                             Mul(in[Length(in) - i - 1], in[Length(in) - i - 1]))),
                  i + 1, in, Append(divisors, m))
    ELSE [buf |-> buf, m |-> m, i |-> i, divisors |-> divisors]

\* The second loop of _nsdf: zeros from index i on
ZeroFrom(buf, i) == [j \in DOMAIN buf |-> IF j >= i THEN Zero ELSE buf[j]]

\* _nsdf after its first loop
NsdfFill(r, loop) ==
    [r EXCEPT !.output = ZeroFrom(loop.buf, loop.i)]
    @@ [divisors |-> loop.divisors]

\* _nsdf with m starting at nsdf[0], not at 2 * nsdf[0]
NsdfNormaliseUndoubled(in, r) ==
    IF r.threw # "none"
    THEN r @@ [divisors |-> <<>>]
    ELSE NsdfFill(r, NsdfLoop(r.output, r.output[0], 0, in, <<>>))

\* _nsdf after the autocorrelation r: m = 2 * nsdf[0], then the two loops
NsdfNormalise(in, r) ==
    IF r.threw # "none"
    THEN r @@ [divisors |-> <<>>]
    ELSE NsdfFill(r, NsdfLoop(r.output, Mul(Two, r.output[0]), 0, in, <<>>))

\* _nsdf(in): the autocorrelation written into the NSDF buffer, then
\* normalised in place.
nsdf(in) == NsdfNormalise(in, autocorrelate(in, nsdfBuffer))

\* keyMaximumIndices.find with > in place of >=: a key maximum at exactly the
\* threshold is passed over
RECURSIVE FindFirstStrict(_, _, _)
FindFirstStrict(indices, data, threshold) ==
    IF indices = <<>> THEN -1
    ELSE IF Gt(data[Head(indices)], threshold) THEN Head(indices)
    ELSE FindFirstStrict(Tail(indices), data, threshold)

\* keyMaximumIndices.find(i => nsdf[i] >= threshold): the first such index,
\* or -1 for undefined
RECURSIVE FindFirst(_, _, _)
FindFirst(indices, data, threshold) ==
    IF indices = <<>> THEN -1
    ELSE IF Ge(data[Head(indices)], threshold) THEN Head(indices)
    ELSE FindFirst(Tail(indices), data, threshold)

\* keyMaximumIndices.map(i => nsdf[i])
MapValues(indices, data) == [j \in DOMAIN indices |-> data[indices[j]]]

\* What findPitch leaves of the buffers after _nsdf returned or threw n
AfterNsdf(n) ==
    [threw |-> n.threw, padded |-> n.padded, transform |-> n.transform,
     inverse |-> n.inverse, nsdf |-> n.output]

\* The return statement of findPitch without Math.min(clarity, 1.0)
FindPitchReturnUnclamped(n, rate, keyMaximumIndices, nMax, resultIndex, refined) ==
    AfterNsdf(n) @@
    [result |-> <<Div(rate, refined[1]), refined[2]>>,
     probe |-> [gated |-> FALSE, divisors |-> n.divisors,
                keyMaximumIndices |-> keyMaximumIndices,
                nMax |-> nMax, resultIndex |-> resultIndex,
                a |-> IF resultIndex = -1 THEN NaN
                      ELSE ParabolaA(n.output[resultIndex - 1],
                                     n.output[resultIndex],
                                     n.output[resultIndex + 1]),
                refined |-> refined]]

\* The return statement of findPitch
FindPitchReturn(n, rate, keyMaximumIndices, nMax, resultIndex, refined) ==
    AfterNsdf(n) @@
    [result |-> <<Div(rate, refined[1]), MathMin(refined[2], One)>>,
     probe |-> [gated |-> FALSE, divisors |-> n.divisors,
                keyMaximumIndices |-> keyMaximumIndices,
                nMax |-> nMax, resultIndex |-> resultIndex,
                a |-> IF resultIndex = -1 THEN NaN
                      ELSE ParabolaA(n.output[resultIndex - 1],
                                     n.output[resultIndex],
                                     n.output[resultIndex + 1]),
                refined |-> refined]]

\* findPitch from the refinement of resultIndex on
FindPitchRefine(n, rate, keyMaximumIndices, nMax, resultIndex) ==
    FindPitchReturn(n, rate, keyMaximumIndices, nMax, resultIndex,
                    refineResultIndex(resultIndex, n.output))

\* The choice of resultIndex against the clarity threshold itself, not
\* against clarityThreshold * nMax
FindPitchSelectAbsolute(n, rate, keyMaximumIndices, nMax) ==
    FindPitchRefine(n, rate, keyMaximumIndices, nMax,
                    FindFirst(keyMaximumIndices, n.output, clarityThreshold))

\* findPitch from the choice of resultIndex on
FindPitchSelect(n, rate, keyMaximumIndices, nMax) ==
    FindPitchRefine(n, rate, keyMaximumIndices, nMax,
                    FindFirst(keyMaximumIndices, n.output,
                              Mul(clarityThreshold, nMax)))

\* findPitch without the early return for an empty list of key maxima
FindPitchKeyMaximaUnchecked(n, rate, keyMaximumIndices) ==
    FindPitchSelect(n, rate, keyMaximumIndices,
                    MathMax(MapValues(keyMaximumIndices, n.output)))

\* findPitch once the key maxima are known
FindPitchKeyMaxima(n, rate, keyMaximumIndices) ==
    IF Len(keyMaximumIndices) = 0
    THEN AfterNsdf(n) @@
         [result |-> <<Zero, Zero>>,
          probe |-> [NoProbe EXCEPT !.divisors = n.divisors]]
    ELSE FindPitchSelect(n, rate, keyMaximumIndices,
                         MathMax(MapValues(keyMaximumIndices, n.output)))

\* findPitch once _nsdf returned or threw n
FindPitchNsdf(n, rate) ==
    IF n.threw # "none"
    THEN AfterNsdf(n) @@ [result |-> <<>>, probe |-> NoProbe]
    ELSE FindPitchKeyMaxima(n, rate, getKeyMaximumIndices(n.output))

\* findPitch with the volume gate tested after _nsdf: a window below the
\* minimum volume returns [0, 0] with the buffers written
findPitchGatingLate(in, rate) ==
    IF belowMinimumVolume(in)
    THEN AfterNsdf(nsdf(in)) @@
         [result |-> <<Zero, Zero>>, probe |-> [NoProbe EXCEPT !.gated = TRUE]]
    ELSE FindPitchNsdf(nsdf(in), rate)

\* findPitch(in, rate) on the current state: the error or the result, the
\* buffers it leaves, and what it computed on the way.
findPitch(in, rate) ==
    IF belowMinimumVolume(in)
    THEN [threw |-> "none", result |-> <<Zero, Zero>>,
          padded |-> paddedInputBuffer, transform |-> transformBuffer,
          inverse |-> inverseBuffer, nsdf |-> nsdfBuffer,
          probe |-> [NoProbe EXCEPT !.gated = TRUE]]
    ELSE FindPitchNsdf(nsdf(in), rate)

\* -------------------------------------------------------------- construction

\* The field initialisers of PitchDetector
DefaultClarityThreshold == Num(9, 10)

DefaultMinVolumeAbsolute == Zero

DefaultMaxInputAmplitude == One

\* An object whose inverse buffer is asked for with length size, not 2 * size
NewObjectHalfInverse(k, n, flavour) ==
    LET size == ceilPow2(2 * n)
    IN  [inputLength |-> n, fftSize |-> size,
         supplied |-> <<size, 2 * size, size>>
                      \o (IF k = "PitchDetector" THEN <<n>> ELSE <<>>),
         padded |-> NewBuffer(flavour, size),
         transform |-> RawSpectrum(NewBuffer(flavour, 2 * size)),
         inverse |-> NewBuffer(flavour, size),
         nsdf |-> IF k = "PitchDetector" THEN NewBuffer(flavour, n) ELSE Empty]

\* An object whose FFT has size ceilPow2(n): the input is padded to the next
\* power of two, not to twice its length
NewObjectUnpadded(k, n, flavour) ==
    LET size == ceilPow2(n)
    IN  [inputLength |-> n, fftSize |-> size,
         supplied |-> <<size, 2 * size, 2 * size>>
                      \o (IF k = "PitchDetector" THEN <<n>> ELSE <<>>),
         padded |-> NewBuffer(flavour, size),
         transform |-> RawSpectrum(NewBuffer(flavour, 2 * size)),
         inverse |-> NewBuffer(flavour, 2 * size),
         nsdf |-> IF k = "PitchDetector" THEN NewBuffer(flavour, n) ELSE Empty]

\* An object that keeps the FFT size where the input length belongs
NewObjectKeepingFftSize(k, n, flavour) ==
    LET size == ceilPow2(2 * n)
    IN  [inputLength |-> size, fftSize |-> size,
         supplied |-> <<size, 2 * size, 2 * size>>
                      \o (IF k = "PitchDetector" THEN <<n>> ELSE <<>>),
         padded |-> NewBuffer(flavour, size),
         transform |-> RawSpectrum(NewBuffer(flavour, 2 * size)),
         inverse |-> NewBuffer(flavour, 2 * size),
         nsdf |-> IF k = "PitchDetector" THEN NewBuffer(flavour, n) ELSE Empty]

\* The fields of an object of class k constructed for input length n >= 1
\* with a supplier of the given flavour: the Autocorrelator's constructor,
\* and for a PitchDetector the NSDF buffer after it.
NewObject(k, n, flavour) ==
    LET size == ceilPow2(2 * n)
    IN  [inputLength |-> n, fftSize |-> size,
         supplied |-> <<size, 2 * size, 2 * size>>
                      \o (IF k = "PitchDetector" THEN <<n>> ELSE <<>>),
         padded |-> NewBuffer(flavour, size),
         transform |-> RawSpectrum(NewBuffer(flavour, 2 * size)),
         inverse |-> NewBuffer(flavour, 2 * size),
         nsdf |-> IF k = "PitchDetector" THEN NewBuffer(flavour, n) ELSE Empty]

\* Nothing constructed and nothing called yet
Init ==
    /\ kind = "none" /\ bufferSupplier = "none"
    /\ inputLength = 0 /\ fftSize = 0
    /\ paddedInputBuffer = Empty /\ transformBuffer = RawSpectrum(Empty)
    /\ inverseBuffer = Empty /\ nsdfBuffer = Empty
    /\ clarityThreshold = DefaultClarityThreshold
    /\ minVolumeAbsolute = DefaultMinVolumeAbsolute
    /\ maxInputAmplitude = DefaultMaxInputAmplitude
    /\ op = "none" /\ arg = Zero /\ input = Empty /\ sampleRate = Zero
    /\ threw = "none" /\ supplied = <<>> /\ result = <<>>
    /\ outputBuffer = Empty
    /\ probe = NoProbe

\* The constructor with <= in place of <: an input length of 1 is rejected
ConstructRejectingOne(k, n, flavour) ==
    /\ kind = "none"
    /\ op' = "construct" /\ arg' = FromInt(n)
    /\ IF n <= 1
       THEN /\ threw' = "InvalidLength" /\ supplied' = <<>>
            /\ UNCHANGED <<object, buffers>>
       ELSE LET o == NewObject(k, n, flavour)
            IN  /\ threw' = "none"
                /\ kind' = k /\ bufferSupplier' = flavour
                /\ supplied' = o.supplied
                /\ inputLength' = o.inputLength /\ fftSize' = o.fftSize
                /\ paddedInputBuffer' = o.padded
                /\ transformBuffer' = o.transform
                /\ inverseBuffer' = o.inverse
                /\ nsdfBuffer' = o.nsdf
    /\ input' = Empty /\ sampleRate' = Zero /\ result' = <<>>
    /\ outputBuffer' = Empty /\ probe' = NoProbe
    /\ UNCHANGED config

\* new Autocorrelator(n, supplier) or new PitchDetector(n, supplier)
Construct(k, n, flavour) ==
    /\ kind = "none"
    /\ op' = "construct" /\ arg' = FromInt(n)
    /\ IF n < 1
       THEN /\ threw' = "InvalidLength" /\ supplied' = <<>>
            /\ UNCHANGED <<object, buffers>>
       ELSE LET o == NewObject(k, n, flavour)
            IN  /\ threw' = "none"
                /\ kind' = k /\ bufferSupplier' = flavour
                /\ supplied' = o.supplied
                /\ inputLength' = o.inputLength /\ fftSize' = o.fftSize
                /\ paddedInputBuffer' = o.padded
                /\ transformBuffer' = o.transform
                /\ inverseBuffer' = o.inverse
                /\ nsdfBuffer' = o.nsdf
    /\ input' = Empty /\ sampleRate' = Zero /\ result' = <<>>
    /\ outputBuffer' = Empty /\ probe' = NoProbe
    /\ UNCHANGED config

\* -------------------------------------------------------------------- setters

\* What every setter call leaves of the call record and of the object
SetterFrame(name, value) ==
    /\ kind = "PitchDetector"
    /\ op' = name /\ arg' = value
    /\ input' = Empty /\ sampleRate' = Zero /\ result' = <<>>
    /\ supplied' = <<>> /\ outputBuffer' = Empty /\ probe' = NoProbe
    /\ UNCHANGED <<object, buffers>>

\* set clarityThreshold(threshold)
SetClarityThreshold(threshold) ==
    /\ SetterFrame("clarityThreshold", threshold)
    /\ IF ~IsFinite(threshold) \/ Le(threshold, Zero) \/ Gt(threshold, One)
       THEN threw' = "InvalidConfig" /\ UNCHANGED clarityThreshold
       ELSE threw' = "none" /\ clarityThreshold' = threshold
    /\ UNCHANGED <<minVolumeAbsolute, maxInputAmplitude>>

\* set minVolumeAbsolute with >= in place of >: the maximum itself is rejected
SetMinVolumeAbsoluteExclusive(volume) ==
    /\ SetterFrame("minVolumeAbsolute", volume)
    /\ IF ~IsFinite(volume) \/ Lt(volume, Zero) \/ Ge(volume, maxInputAmplitude)
       THEN threw' = "InvalidConfig" /\ UNCHANGED minVolumeAbsolute
       ELSE threw' = "none" /\ minVolumeAbsolute' = volume
    /\ UNCHANGED <<clarityThreshold, maxInputAmplitude>>

\* set minVolumeAbsolute(volume)
SetMinVolumeAbsolute(volume) ==
    /\ SetterFrame("minVolumeAbsolute", volume)
    /\ IF ~IsFinite(volume) \/ Lt(volume, Zero) \/ Gt(volume, maxInputAmplitude)
       THEN threw' = "InvalidConfig" /\ UNCHANGED minVolumeAbsolute
       ELSE threw' = "none" /\ minVolumeAbsolute' = volume
    /\ UNCHANGED <<clarityThreshold, maxInputAmplitude>>

\* set minVolumeDecibels storing 10 ** (db / 10) itself, not scaled by
\* maxInputAmplitude
SetMinVolumeDecibelsUnscaled(db) ==
    /\ SetterFrame("minVolumeDecibels", db)
    /\ IF ~IsFinite(db) \/ Gt(db, Zero)
       THEN threw' = "InvalidConfig" /\ UNCHANGED minVolumeAbsolute
       ELSE /\ threw' = "none"
            /\ minVolumeAbsolute' = Pow10(Div(db, FromInt(10)))
    /\ UNCHANGED <<clarityThreshold, maxInputAmplitude>>

\* set minVolumeDecibels(db)
SetMinVolumeDecibels(db) ==
    /\ SetterFrame("minVolumeDecibels", db)
    /\ IF ~IsFinite(db) \/ Gt(db, Zero)
       THEN threw' = "InvalidConfig" /\ UNCHANGED minVolumeAbsolute
       ELSE /\ threw' = "none"
            /\ minVolumeAbsolute' =
                   Mul(maxInputAmplitude, Pow10(Div(db, FromInt(10))))
    /\ UNCHANGED <<clarityThreshold, maxInputAmplitude>>

\* set maxInputAmplitude with < in place of <=: an amplitude of 0 is accepted
SetMaxInputAmplitudeNonNegative(amplitude) ==
    /\ SetterFrame("maxInputAmplitude", amplitude)
    /\ IF ~IsFinite(amplitude) \/ Lt(amplitude, Zero)
       THEN threw' = "InvalidConfig" /\ UNCHANGED maxInputAmplitude
       ELSE threw' = "none" /\ maxInputAmplitude' = amplitude
    /\ UNCHANGED <<clarityThreshold, minVolumeAbsolute>>

\* set maxInputAmplitude(amplitude)
SetMaxInputAmplitude(amplitude) ==
    /\ SetterFrame("maxInputAmplitude", amplitude)
    /\ IF ~IsFinite(amplitude) \/ Le(amplitude, Zero)
       THEN threw' = "InvalidConfig" /\ UNCHANGED maxInputAmplitude
       ELSE threw' = "none" /\ maxInputAmplitude' = amplitude
    /\ UNCHANGED <<clarityThreshold, minVolumeAbsolute>>

\* ---------------------------------------------------------------------- calls

\* The state a findPitch call that ended as r leaves
FindPitchEnds(in, rate, r) ==
    /\ threw' = r.threw /\ result' = r.result /\ probe' = r.probe
    /\ paddedInputBuffer' = r.padded /\ transformBuffer' = r.transform
    /\ inverseBuffer' = r.inverse /\ nsdfBuffer' = r.nsdf
    /\ op' = "findPitch" /\ arg' = Zero /\ input' = in /\ sampleRate' = rate
    /\ supplied' = <<>> /\ outputBuffer' = Empty
    /\ UNCHANGED <<object, config>>

\* detector.findPitch(in, rate)
FindPitch(in, rate) ==
    /\ kind = "PitchDetector"
    /\ FindPitchEnds(in, rate, findPitch(in, rate))

\* An autocorrelate call that asks the supplier for an output buffer whether
\* or not the caller gave one
AutocorrelateEndsAllocating(in, given, r) ==
    /\ threw' = r.threw
    /\ result' = IF r.threw = "none" THEN r.output ELSE <<>>
    /\ outputBuffer' = r.output
    /\ paddedInputBuffer' = r.padded /\ transformBuffer' = r.transform
    /\ inverseBuffer' = r.inverse
    /\ supplied' = <<Length(in)>>
    /\ op' = (IF given THEN "autocorrelate(in, out)" ELSE "autocorrelate(in)")
    /\ arg' = Zero /\ input' = in /\ sampleRate' = Zero
    /\ probe' = NoProbe
    /\ UNCHANGED <<object, nsdfBuffer, config>>

\* The state an autocorrelate call that ended as r leaves
AutocorrelateEnds(in, given, r) ==
    /\ threw' = r.threw
    /\ result' = IF r.threw = "none" THEN r.output ELSE <<>>
    /\ outputBuffer' = r.output
    /\ paddedInputBuffer' = r.padded /\ transformBuffer' = r.transform
    /\ inverseBuffer' = r.inverse
    /\ supplied' = IF given THEN <<>> ELSE <<Length(in)>>
    /\ op' = (IF given THEN "autocorrelate(in, out)" ELSE "autocorrelate(in)")
    /\ arg' = Zero /\ input' = in /\ sampleRate' = Zero
    /\ probe' = NoProbe
    /\ UNCHANGED <<object, nsdfBuffer, config>>

\* autocorrelator.autocorrelate(in, output) when given, and
\* autocorrelator.autocorrelate(in) otherwise: the default parameter asks
\* the supplier for a buffer of in.length before the body runs.
Autocorrelate(in, given) ==
    /\ kind = "Autocorrelator"
    /\ AutocorrelateEnds(in, given,
           autocorrelate(in, NewBuffer(bufferSupplier,
                                       IF given THEN inputLength ELSE Length(in))))

\* ------------------------------------------------------------- input domains

Kinds == {"Autocorrelator", "PitchDetector"}

Flavours == {"Float64Array", "NumberArray"}

Samples == {FromInt(v) : v \in Amplitudes}

\* The windows of length n
Windows(n) == [0 .. n - 1 -> Samples]

\* The windows of length n that Spec hands to an object: a sample is silent
\* or at full scale
LevelWindows(n) == [0 .. n - 1 -> {Zero, One}]

\* Setter arguments: the non-finite numbers, both sides of every boundary
\* the setters test, and values in between
ThresholdArgs ==
    {NaN, Infinity, NegInfinity, Num(-1, 2), Zero, Num(1, 2), Num(9, 10), One,
     Num(3, 2)}

VolumeArgs ==
    {NaN, Infinity, NegInfinity, Num(-1, 2), Zero, Num(1, 2), One, Two,
     FromInt(3)}

DecibelArgs ==
    {NaN, Infinity, NegInfinity, FromInt(10), Zero, FromInt(-10), FromInt(-20)}

AmplitudeArgs ==
    {NaN, Infinity, NegInfinity, FromInt(-1), Zero, Num(1, 2), One, Two}

\* ------------------------------------------------- SpecConfig: configuration

ConstructDetector ==
    \E n \in -1 .. MaxLen, f \in Flavours : Construct("PitchDetector", n, f)

ConfigureClarityThreshold == \E v \in ThresholdArgs : SetClarityThreshold(v)

ConfigureMinVolumeAbsolute == \E v \in VolumeArgs : SetMinVolumeAbsolute(v)

ConfigureMinVolumeDecibels == \E v \in DecibelArgs : SetMinVolumeDecibels(v)

ConfigureMaxInputAmplitude == \E v \in AmplitudeArgs : SetMaxInputAmplitude(v)

NextConfig ==
    \/ ConstructDetector
    \/ ConfigureClarityThreshold
    \/ ConfigureMinVolumeAbsolute
    \/ ConfigureMinVolumeDecibels
    \/ ConfigureMaxInputAmplitude

\* A detector from its construction on, under any sequence of setter calls
SpecConfig == Init /\ [][NextConfig]_vars

\* ------------------------------------------------------ Spec: object lifecycle

ConstructObject ==
    \E k \in Kinds, n \in -1 .. MaxLen, f \in Flavours : Construct(k, n, f)

\* One accepted and one rejected argument per setter (SpecConfig has the rest)
ChangeClarityThreshold == \E v \in {Zero, Num(1, 2)} : SetClarityThreshold(v)

ChangeMinVolumeAbsolute == \E v \in {FromInt(-1), One} : SetMinVolumeAbsolute(v)

ChangeMinVolumeDecibels == \E v \in {One, Zero} : SetMinVolumeDecibels(v)

ChangeMaxInputAmplitude == \E v \in {Zero, Two} : SetMaxInputAmplitude(v)

\* findPitch on a window of any length from 0 to MaxLen + 1
CallFindPitch ==
    \E n \in 0 .. MaxLen + 1 : \E in \in LevelWindows(n) : FindPitch(in, One)

\* autocorrelate on a window of any length from 0 to MaxLen + 1, with and
\* without an output buffer
CallAutocorrelate ==
    \E n \in 0 .. MaxLen + 1 : \E in \in LevelWindows(n), given \in BOOLEAN :
        Autocorrelate(in, given)

Next ==
    \/ ConstructObject
    \/ ChangeClarityThreshold
    \/ ChangeMinVolumeAbsolute
    \/ ChangeMinVolumeDecibels
    \/ ChangeMaxInputAmplitude
    \/ CallFindPitch
    \/ CallAutocorrelate

\* An object from its construction on, under any sequence of calls
Spec == Init /\ [][Next]_vars


\* ------------------------------------------ SpecCall: one call on a new object

\* The detectors called and the sample rates they are called with: every
\* configuration is reached from the defaults by accepted setter calls
\* (SpecConfig).  Volume 1 gates every window with a silent sample and meets
\* the full-scale windows with equality; volume 1/2 gates the windows with
\* fewer than a quarter of their samples sounding.
CallSettings ==
    {[threshold |-> DefaultClarityThreshold, volume |-> Zero, rate |-> One],
     [threshold |-> Num(1, 2), volume |-> Zero, rate |-> FromInt(3)],
     [threshold |-> One, volume |-> Num(1, 2), rate |-> One],
     [threshold |-> Num(1, 2), volume |-> One, rate |-> One]}

\* A new object of class k for input length n, configured, and a call with a
\* window of length n pending on it
PendingCall(k, n, flavour, threshold, volume, in, rate) ==
    LET o == NewObject(k, n, flavour)
    IN  /\ kind = k /\ bufferSupplier = flavour
        /\ inputLength = o.inputLength /\ fftSize = o.fftSize
        /\ paddedInputBuffer = o.padded /\ transformBuffer = o.transform
        /\ inverseBuffer = o.inverse /\ nsdfBuffer = o.nsdf
        /\ clarityThreshold = threshold
        /\ minVolumeAbsolute = volume
        /\ maxInputAmplitude = DefaultMaxInputAmplitude
        /\ op = "pending" /\ arg = Zero /\ input = in /\ sampleRate = rate
        /\ threw = "none" /\ supplied = <<>> /\ result = <<>>
        /\ outputBuffer = Empty /\ probe = NoProbe

InitCall ==
    \E n \in 1 .. MaxN, flavour \in Flavours :
        \E in \in Windows(n) :
            \/ \E c \in CallSettings :
                   PendingCall("PitchDetector", n, flavour, c.threshold,
                               c.volume, in, c.rate)
            \/ PendingCall("Autocorrelator", n, flavour,
                           DefaultClarityThreshold, DefaultMinVolumeAbsolute,
                           in, Zero)

\* The pending findPitch call is made
PendingFindPitch == op = "pending" /\ FindPitch(input, sampleRate)

\* The pending autocorrelate call is made, with or without an output buffer
PendingAutocorrelate ==
    op = "pending" /\ \E given \in BOOLEAN : Autocorrelate(input, given)

NextCall == PendingFindPitch \/ PendingAutocorrelate

\* Every call of findPitch and of autocorrelate with a window of the
\* configured length on a new object
SpecCall == InitCall /\ [][NextCall]_vars

\* ------------------------------------- SpecHistory: successive findPitch calls

\* The detectors called again and again: one with the volume gate disabled
\* and one whose gate lets some calls return before any buffer is written
HistorySettings ==
    {[threshold |-> Num(1, 2), volume |-> Zero],
     [threshold |-> DefaultClarityThreshold, volume |-> Num(1, 2)]}

\* A new detector for windows of up to MaxLen + 3 samples
InitHistory ==
    \E n \in 1 .. MaxLen + 3, flavour \in Flavours, c \in HistorySettings :
        PendingCall("PitchDetector", n, flavour, c.threshold, c.volume,
                    Empty, Zero)

\* One more findPitch call on the detector, whatever it was called with before
NextFindPitch ==
    \E in \in LevelWindows(inputLength) : FindPitch(in, One)

NextHistory == NextFindPitch

\* A detector under any sequence of findPitch calls with windows of its length
SpecHistory == InitHistory /\ [][NextHistory]_vars

\* ---------------------------------------- SpecScan: the key-maximum scanner

ScanValues == {FromInt(-1), Zero, Num(1, 2), One}

\* No object, and an array of up to MaxScanLen numbers to be scanned
InitScan ==
    /\ kind = "none" /\ bufferSupplier = "none"
    /\ inputLength = 0 /\ fftSize = 0
    /\ paddedInputBuffer = Empty /\ transformBuffer = RawSpectrum(Empty)
    /\ inverseBuffer = Empty
    /\ \E n \in 0 .. MaxScanLen : nsdfBuffer \in [0 .. n - 1 -> ScanValues]
    /\ clarityThreshold = DefaultClarityThreshold
    /\ minVolumeAbsolute = DefaultMinVolumeAbsolute
    /\ maxInputAmplitude = DefaultMaxInputAmplitude
    /\ op = "pending" /\ arg = Zero /\ input = Empty /\ sampleRate = Zero
    /\ threw = "none" /\ supplied = <<>> /\ result = <<>>
    /\ outputBuffer = Empty /\ probe = NoProbe

\* getKeyMaximumIndices(nsdfBuffer)
Scan ==
    /\ kind = "none" /\ op = "pending"
    /\ op' = "getKeyMaximumIndices"
    /\ probe' = [NoProbe EXCEPT
                   !.keyMaximumIndices = getKeyMaximumIndices(nsdfBuffer)]
    /\ UNCHANGED <<object, buffers, config, arg, input, sampleRate, threw,
                   supplied, result, outputBuffer>>

NextScan == Scan

SpecScan == InitScan /\ [][NextScan]_vars

\* ------------------------------------------------------- SpecPow2: ceilPow2

\* The arguments of ceilPow2: every integer from 1 to MaxPow2Arg, and every
\* power of two up to 2^30 with its two neighbours (2^30 + 1 excepted, whose
\* result 2^31 is no 32-bit signed integer)
Pow2Args ==
    (1 .. MaxPow2Arg)
    \cup UNION {{IntPow(2, k) - 1, IntPow(2, k), IntPow(2, k) + 1} : k \in 1 .. 29}
    \cup {IntPow(2, 30) - 1, IntPow(2, 30)}

\* No object, and an argument for ceilPow2
InitPow2 ==
    /\ kind = "none" /\ bufferSupplier = "none"
    /\ inputLength = 0 /\ fftSize = 0
    /\ paddedInputBuffer = Empty /\ transformBuffer = RawSpectrum(Empty)
    /\ inverseBuffer = Empty /\ nsdfBuffer = Empty
    /\ clarityThreshold = DefaultClarityThreshold
    /\ minVolumeAbsolute = DefaultMinVolumeAbsolute
    /\ maxInputAmplitude = DefaultMaxInputAmplitude
    /\ op = "pending" /\ \E v \in Pow2Args : arg = FromInt(v)
    /\ input = Empty /\ sampleRate = Zero
    /\ threw = "none" /\ supplied = <<>> /\ result = <<>>
    /\ outputBuffer = Empty /\ probe = NoProbe

\* ceilPow2(arg)
CeilPow2 ==
    /\ kind = "none" /\ op = "pending"
    /\ op' = "ceilPow2"
    /\ result' = <<FromInt(ceilPow2(arg.n))>>
    /\ UNCHANGED <<object, buffers, config, arg, input, sampleRate, threw,
                   supplied, outputBuffer, probe>>

NextPow2 == CeilPow2

SpecPow2 == InitPow2 /\ [][NextPow2]_vars

\* ------------------------------------------------------------------ properties

\* A findPitch call that returned
FindPitchReturned == op = "findPitch" /\ threw = "none"

\* An autocorrelate call that returned
AutocorrelateReturned ==
    op \in {"autocorrelate(in)", "autocorrelate(in, out)"} /\ threw = "none"

\* The sum of the squares of the samples of window x
SquareSum(x) ==
    SumRange([i \in DOMAIN x |-> Mul(x[i], x[i])], 0, Length(x) - 1)

\* Every sample of window x is zero
Silent(x) == \A i \in DOMAIN x : x[i] = Zero

\* The linear autocorrelation of window x at lag t: the sum of x[j] * x[j + t]
\* over j = 0 .. N - 1 - t
LinearAutocorrelation(x, t) ==
    SumRange([j \in 0 .. Length(x) - 1 - t |-> Mul(x[j], x[j + t])],
             0, Length(x) - 1 - t)

\* C1: findPitch fails with WrongLength, and returns nothing, for every input
\* whose length differs from the configured input length, whatever the
\* configuration is.
WrongLengthAlwaysFails ==
    (op = "findPitch" /\ Length(input) # inputLength)
        => (threw = "WrongLength" /\ result = <<>>)

\* C2: autocorrelate writes the linear autocorrelation of its input: for every
\* lag t in 0 .. N - 1, output[t] is the sum of input[j] * input[j + t] over
\* j = 0 .. N - 1 - t, and output[0] is the sum of the squares.
AutocorrelateIsLinear ==
    AutocorrelateReturned =>
        /\ Length(result) = Length(input)
        /\ \A t \in DOMAIN input : result[t] = LinearAutocorrelation(input, t)
        /\ result[0] = SquareSum(input)

\* An autocorrelation whose last lag, the product of the first and the last
\* sample, is not zero: the lag a circular correlation would fold onto others
AutocorrelateIsLinearWitness ==
    /\ AutocorrelateReturned
    /\ Length(input) >= 3
    /\ result[Length(input) - 1] # Zero
    /\ result[1] # result[Length(input) - 1]

\* C3 as stated: in every state of a detector the configuration satisfies
\* 0 <= minVolumeAbsolute <= maxInputAmplitude, 0 < clarityThreshold <= 1 and
\* maxInputAmplitude > 0.
ConfigurationInRange ==
    kind = "PitchDetector" =>
        /\ Le(Zero, minVolumeAbsolute) /\ Le(minVolumeAbsolute, maxInputAmplitude)
        /\ Gt(clarityThreshold, Zero) /\ Le(clarityThreshold, One)
        /\ Gt(maxInputAmplitude, Zero)

\* The part of the configuration's range that no setter call breaks
ConfigurationFieldsInRange ==
    /\ IsFinite(minVolumeAbsolute) /\ Le(Zero, minVolumeAbsolute)
    /\ IsFinite(clarityThreshold)
    /\ Gt(clarityThreshold, Zero) /\ Le(clarityThreshold, One)
    /\ IsFinite(maxInputAmplitude) /\ Gt(maxInputAmplitude, Zero)

\* A step that changes minVolumeAbsolute leaves it at most the
\* maxInputAmplitude of that call, and a step after which minVolumeAbsolute
\* exceeds maxInputAmplitude, when it did not before, is an accepted call of
\* the setter maxInputAmplitude
MinVolumeBoundedWhenSet ==
    /\ minVolumeAbsolute' # minVolumeAbsolute =>
           /\ maxInputAmplitude' = maxInputAmplitude
           /\ Le(minVolumeAbsolute', maxInputAmplitude)
    /\ (Le(minVolumeAbsolute, maxInputAmplitude)
        /\ ~Le(minVolumeAbsolute', maxInputAmplitude')) =>
           (op' = "maxInputAmplitude" /\ threw' = "none")

\* C3, amended: in every state of a detector minVolumeAbsolute >= 0,
\* 0 < clarityThreshold <= 1 and maxInputAmplitude > 0; minVolumeAbsolute is at
\* most the maxInputAmplitude in effect when it is set, and only an accepted
\* call of the setter maxInputAmplitude can leave it above maxInputAmplitude.
ConfigurationInRangeWhenSet ==
    /\ [](kind = "PitchDetector" => ConfigurationFieldsInRange)
    /\ [][MinVolumeBoundedWhenSet]_vars

\* The maximum amplitude was lowered below the minimum volume set before
ConfigurationInRangeWhenSetWitness ==
    /\ kind = "PitchDetector"
    /\ op = "maxInputAmplitude" /\ threw = "none"
    /\ Gt(minVolumeAbsolute, maxInputAmplitude)

\* What each setter rejects, by the name the call is recorded under: value
\* is the argument and amplitude the maxInputAmplitude at the time of the call
InvalidArgument(name, value, amplitude) ==
    CASE name = "clarityThreshold" ->
             ~IsFinite(value) \/ Le(value, Zero) \/ Gt(value, One)
      [] name = "maxInputAmplitude" -> ~IsFinite(value) \/ Le(value, Zero)
      [] name = "minVolumeAbsolute" ->
             ~IsFinite(value) \/ Lt(value, Zero) \/ Gt(value, amplitude)
      [] name = "minVolumeDecibels" -> ~IsFinite(value) \/ Gt(value, Zero)

SetterNames ==
    {"clarityThreshold", "maxInputAmplitude", "minVolumeAbsolute",
     "minVolumeDecibels"}

\* A setter call fails exactly on an invalid argument and then changes no
\* field; an accepted call changes no field but its own
SetterStep ==
    op' \in SetterNames =>
        /\ threw' = (IF InvalidArgument(op', arg', maxInputAmplitude)
                     THEN "InvalidConfig" ELSE "none")
        /\ threw' = "InvalidConfig" => UNCHANGED config
        /\ threw' = "none" =>
               /\ op' = "clarityThreshold" =>
                      /\ clarityThreshold' = arg'
                      /\ UNCHANGED <<minVolumeAbsolute, maxInputAmplitude>>
               /\ op' = "maxInputAmplitude" =>
                      /\ maxInputAmplitude' = arg'
                      /\ UNCHANGED <<clarityThreshold, minVolumeAbsolute>>
               /\ op' = "minVolumeAbsolute" =>
                      /\ minVolumeAbsolute' = arg'
                      /\ UNCHANGED <<clarityThreshold, maxInputAmplitude>>
               /\ op' = "minVolumeDecibels" =>
                      UNCHANGED <<clarityThreshold, maxInputAmplitude>>

\* C4: each setter rejects an invalid argument with an error and leaves every
\* configuration field unchanged (clarityThreshold: not finite, <= 0 or > 1;
\* maxInputAmplitude: not finite or <= 0; minVolumeAbsolute: not finite, < 0
\* or above the maxInputAmplitude of the time; minVolumeDecibels: not finite or
\* > 0), and accepts every other argument.
SettersValidate == [][SetterStep]_vars

\* A minimum volume rejected for exceeding a maximum amplitude that an earlier
\* call had set, with the minimum volume set before left in place
SettersValidateWitness ==
    /\ op = "minVolumeAbsolute" /\ threw = "InvalidConfig"
    /\ IsFinite(arg) /\ Gt(arg, maxInputAmplitude) /\ Le(arg, One)
    /\ maxInputAmplitude # DefaultMaxInputAmplitude
    /\ minVolumeAbsolute # DefaultMinVolumeAbsolute

\* rms(x) < v for v >= 0, with the squares compared: sum / N < v * v
RmsBelow(x, v) == Lt(Div(SquareSum(x), FromInt(Length(x))), Mul(v, v))

\* C5: a window whose rms is strictly below a positive minVolumeAbsolute makes
\* findPitch return exactly (0, 0) at the volume gate; a window whose rms
\* equals minVolumeAbsolute is not gated, and with minVolumeAbsolute = 0 the
\* gate never fires.
VolumeGate ==
    op = "findPitch" /\ Length(input) = inputLength =>
        IF Gt(minVolumeAbsolute, Zero) /\ RmsBelow(input, minVolumeAbsolute)
        THEN probe.gated /\ threw = "none" /\ result = <<Zero, Zero>>
        ELSE ~probe.gated

\* A window that is not silent and still below the minimum volume
VolumeGateWitness ==
    /\ op = "findPitch" /\ probe.gated
    /\ ~Silent(input)
    /\ Gt(minVolumeAbsolute, Zero) /\ RmsBelow(input, minVolumeAbsolute)
    /\ result = <<Zero, Zero>>

\* C6: for an all-zero window of the configured length findPitch returns
\* exactly (0, 0), with the volume gate enabled or disabled.
SilenceHasNoPitch ==
    (op = "findPitch" /\ Length(input) = inputLength /\ Silent(input))
        => (threw = "none" /\ result = <<Zero, Zero>>)

\* An all-zero window that passed a disabled volume gate
SilenceHasNoPitchWitness ==
    /\ FindPitchReturned /\ Silent(input) /\ Length(input) >= 3
    /\ minVolumeAbsolute = Zero /\ ~probe.gated
    /\ result = <<Zero, Zero>>

\* C7: every result of findPitch has 0 <= clarity <= 1, and when a lag was
\* refined the clarity is min(y*, 1): an interpolated peak above 1 is reported
\* as exactly 1.
ClarityInUnitInterval ==
    FindPitchReturned =>
        /\ Len(result) = 2
        /\ Le(Zero, result[2]) /\ Le(result[2], One)
        /\ Len(probe.refined) = 2 =>
               result[2] = (IF Gt(probe.refined[2], One) THEN One
                            ELSE probe.refined[2])

\* An interpolated peak above 1, reported as 1
ClarityInUnitIntervalWitness ==
    /\ FindPitchReturned /\ Len(probe.refined) = 2
    /\ Gt(probe.refined[2], One)
    /\ result[2] = One

\* The NSDF values at the key maxima of the last findPitch call
KeyMaximumValues ==
    {nsdfBuffer[probe.keyMaximumIndices[j]] :
        j \in DOMAIN probe.keyMaximumIndices}

KeyMaximumSet ==
    {probe.keyMaximumIndices[j] : j \in DOMAIN probe.keyMaximumIndices}

\* C8: when there are key maxima, findPitch selects the smallest key-maximum
\* index k with nsdf[k] >= clarityThreshold * nMax, nMax being the largest NSDF
\* value over the key maxima: such an index exists, no earlier key maximum
\* reaches the threshold, and k is never later than an index that achieves
\* nMax.
FirstKeyMaximumAboveThreshold ==
    (FindPitchReturned /\ Len(probe.keyMaximumIndices) > 0) =>
        /\ probe.nMax \in KeyMaximumValues
        /\ \A v \in KeyMaximumValues : Le(v, probe.nMax)
        /\ probe.resultIndex \in KeyMaximumSet
        /\ Ge(nsdfBuffer[probe.resultIndex], Mul(clarityThreshold, probe.nMax))
        /\ \A k \in KeyMaximumSet :
               /\ k < probe.resultIndex =>
                      Lt(nsdfBuffer[k], Mul(clarityThreshold, probe.nMax))
               /\ nsdfBuffer[k] = probe.nMax => probe.resultIndex <= k

\* The first of several key maxima is selected although a later one is higher
FirstKeyMaximumAboveThresholdWitness ==
    /\ FindPitchReturned /\ Len(probe.keyMaximumIndices) >= 2
    /\ probe.resultIndex = probe.keyMaximumIndices[1]
    /\ Lt(nsdfBuffer[probe.resultIndex], probe.nMax)
    /\ Lt(clarityThreshold, One)

\* C9: the indices the key-maximum scanner returns for an array of length N
\* are strictly increasing, and every one of them is at least 1 and at most
\* N - 2, so that both its neighbours are indices of the array.
KeyMaximaIncreasingAndInterior ==
    op = "getKeyMaximumIndices" =>
        /\ \A j \in DOMAIN probe.keyMaximumIndices :
               /\ 1 <= probe.keyMaximumIndices[j]
               /\ probe.keyMaximumIndices[j] <= Length(nsdfBuffer) - 2
        /\ \A j \in 1 .. Len(probe.keyMaximumIndices) - 1 :
               probe.keyMaximumIndices[j] < probe.keyMaximumIndices[j + 1]

\* Two key maxima, after a first lobe that starts at index 0 and has none
KeyMaximaIncreasingAndInteriorWitness ==
    /\ op = "getKeyMaximumIndices"
    /\ Len(probe.keyMaximumIndices) = 2
    /\ Gt(nsdfBuffer[0], Zero)

\* C10: for a finite window and a positive sample rate findPitch returns
\* finite numbers, and no division it makes has a zero denominator: m > 0 at
\* every division of the NSDF loop, and when a lag is refined the coefficient
\* a of the parabola and the refined lag x* are not zero.
ResultIsFinite ==
    FindPitchReturned =>
        /\ Len(result) = 2 /\ IsFinite(result[1]) /\ IsFinite(result[2])
        /\ \A j \in DOMAIN probe.divisors :
               IsFinite(probe.divisors[j]) /\ Gt(probe.divisors[j], Zero)
        /\ Len(probe.keyMaximumIndices) > 0 =>
               /\ IsFinite(probe.a) /\ probe.a # Zero
               /\ IsFinite(probe.refined[1]) /\ probe.refined[1] # Zero

\* A pitch found between two samples, after a division at every index
ResultIsFiniteWitness ==
    /\ FindPitchReturned /\ Len(probe.keyMaximumIndices) > 0
    /\ Len(probe.divisors) = Length(input)
    /\ probe.refined[1] # FromInt(probe.resultIndex)
    /\ Gt(result[1], Zero)

\* What a new detector of the same length, supplier and configuration
\* computes for window in: the lags written into its new NSDF buffer
FreshLags(in) ==
    LET o == NewObject("PitchDetector", Length(in), bufferSupplier)
    IN  CopyLags(o.nsdf,
                 InverseTransform(o.inverse, PowerSpectrum(PadInput(o.padded, in))),
                 Length(in))

FreshNormalised(loop) == ZeroFrom(loop.buf, loop.i)

FreshNsdfOf(in, lags) ==
    FreshNormalised(NsdfLoop(lags, Mul(Two, lags[0]), 0, in, <<>>))

\* The NSDF a new detector computes for window in
FreshNsdf(in) == FreshNsdfOf(in, FreshLags(in))

FreshRefined(rate, refined) == <<Div(rate, refined[1]), MathMin(refined[2], One)>>

FreshSelect(values, rate, indices) ==
    IF Len(indices) = 0 THEN <<Zero, Zero>>
    ELSE FreshRefined(rate,
             refineResultIndex(
                 FindFirst(indices, values,
                           Mul(clarityThreshold,
                               MathMax(MapValues(indices, values)))),
                 values))

FreshScan(values, rate) == FreshSelect(values, rate, getKeyMaximumIndices(values))

\* The result a new detector of the same length, supplier and configuration
\* returns for window in at sample rate rate
FreshResult(in, rate) ==
    IF Gt(minVolumeAbsolute, Zero) /\ RmsBelow(in, minVolumeAbsolute)
    THEN <<Zero, Zero>>
    ELSE FreshScan(FreshNsdf(in), rate)

\* C11: findPitch is a function of the configuration, the input and the
\* sample rate only: after any history of earlier findPitch calls, a call
\* returns what a new detector of the same length and configuration returns
\* for the same input and sample rate, and leaves the NSDF that detector
\* computes; stale contents of the scratch buffers influence neither.
ResultIgnoresHistory ==
    (FindPitchReturned /\ Length(input) = inputLength) =>
        /\ result = FreshResult(input, sampleRate)
        /\ ~probe.gated => nsdfBuffer = FreshNsdf(input)

\* A detector whose last call returned at the volume gate, so that its NSDF
\* buffer still holds the NSDF of an earlier window with a key maximum, and a
\* window for which a call in this state finds a pitch, the one a new
\* detector finds
ResultIgnoresHistoryWitness ==
    /\ FindPitchReturned /\ probe.gated
    /\ Len(getKeyMaximumIndices(nsdfBuffer)) > 0
    /\ \E w \in LevelWindows(inputLength) :
           /\ findPitch(w, One).result # <<Zero, Zero>>
           /\ findPitch(w, One).result = FreshResult(w, One)
           /\ FreshNsdf(w) # nsdfBuffer

AutocorrelateNames == {"autocorrelate(in)", "autocorrelate(in, out)"}

\* An autocorrelate call with a window of another length than the configured
\* one fails and writes nothing: the scratch buffers are as before, and the
\* output buffer the caller supplied is as the caller made it
AutocorrelateRejects ==
    (op' \in AutocorrelateNames /\ Length(input') # inputLength) =>
        /\ threw' = "WrongLength" /\ result' = <<>>
        /\ UNCHANGED <<paddedInputBuffer, transformBuffer, inverseBuffer>>
        /\ op' = "autocorrelate(in, out)" =>
               outputBuffer' = NewBuffer(bufferSupplier, inputLength)

\* C12: autocorrelate fails with WrongLength for every input whose length
\* differs from the configured length, and on that failure no scratch buffer
\* (padded input, transform, inverse) and no element of a caller-supplied
\* output buffer has been written.
WrongLengthWritesNothing == [][AutocorrelateRejects]_vars

\* A window longer than the configured length rejected by an autocorrelator
\* whose padded buffer holds the window of an earlier call
WrongLengthWritesNothingWitness ==
    /\ op = "autocorrelate(in, out)" /\ threw = "WrongLength"
    /\ Length(input) > inputLength /\ ~Silent(input)
    /\ \E i \in DOMAIN paddedInputBuffer : paddedInputBuffer[i] = One
    /\ transformBuffer.form = "power"

\* C13: constructing an Autocorrelator or a PitchDetector with N < 1 fails
\* with InvalidLength before the buffer supplier is invoked for any buffer,
\* and no object results; constructing with an integer N >= 1 succeeds and
\* gives an object of that input length.
ConstructorChecksLength ==
    op = "construct" =>
        IF Lt(arg, One)
        THEN /\ threw = "InvalidLength" /\ supplied = <<>>
             /\ kind = "none"
        ELSE /\ threw = "none" /\ kind \in Kinds
             /\ FromInt(inputLength) = arg
             /\ Len(supplied) >= 3

\* The construction for N = 0 failed, with no buffer asked for
ConstructorChecksLengthWitness ==
    /\ op = "construct" /\ arg = Zero
    /\ threw = "InvalidLength" /\ supplied = <<>> /\ kind = "none"

\* p is a power of two (up to 2^30)
IsPowerOfTwo(p) == \E k \in 0 .. 30 : p = IntPow(2, k)

\* C14: for every integer v >= 1 (up to 2^30) ceilPow2(v) is the smallest
\* power of two p with p >= v: p is a power of two, p >= v and p < 2 * v; in
\* particular ceilPow2(1) = 1 and a power of two is returned unchanged.
CeilPow2IsNextPowerOfTwo ==
    op = "ceilPow2" =>
        /\ IsPowerOfTwo(result[1].n) /\ result[1].d = 1
        /\ result[1].n >= arg.n
        /\ result[1].n \div 2 < arg.n
        /\ arg.n = 1 => result[1].n = 1
        /\ IsPowerOfTwo(arg.n) => result[1].n = arg.n

\* A power of two above 2^16, where every shift of ceilPow2 has bits to
\* spread, returned unchanged
CeilPow2IsNextPowerOfTwoWitness ==
    /\ op = "ceilPow2" /\ arg.n > IntPow(2, 16)
    /\ IsPowerOfTwo(arg.n) /\ result[1].n = arg.n

\* An accepted minVolumeDecibels call with db = -10 * k stores the value that
\* multiplied by 10^k is the maxInputAmplitude of the time of the call, which
\* lies between 0 and that maxInputAmplitude
DecibelsStep ==
    (op' = "minVolumeDecibels" /\ threw' = "none") =>
        /\ \E k \in 0 .. 2 :
               /\ arg' = FromInt(-10 * k)
               /\ Mul(minVolumeAbsolute', FromInt(IntPow(10, k))) = maxInputAmplitude
        /\ arg' = Zero => minVolumeAbsolute' = maxInputAmplitude
        /\ Le(Zero, minVolumeAbsolute')
        /\ Le(minVolumeAbsolute', maxInputAmplitude)
        /\ maxInputAmplitude' = maxInputAmplitude

\* C15: minVolumeDecibels = db, for finite db <= 0, stores minVolumeAbsolute =
\* maxInputAmplitude * 10^(db/10) with the maxInputAmplitude in effect at the
\* time of the call: db = 0 stores exactly maxInputAmplitude, db = -10 a tenth
\* of it, and the stored value lies in [0, maxInputAmplitude].
DecibelsScaleMaxAmplitude == [][DecibelsStep]_vars

\* A tenth of a maximum amplitude of 2 stored by db = -10
DecibelsScaleMaxAmplitudeWitness ==
    /\ op = "minVolumeDecibels" /\ threw = "none"
    /\ arg = FromInt(-10) /\ maxInputAmplitude = Two
    /\ minVolumeAbsolute = Num(1, 5)

\* A successful construction sets the input length to its argument, and no
\* step of a constructed object changes it
InputLengthStep ==
    /\ (op' = "construct" /\ threw' = "none") => FromInt(inputLength') = arg'
    /\ kind # "none" => (inputLength' = inputLength /\ kind' = kind)

\* C16: the input length of an Autocorrelator and of a PitchDetector is the N
\* given at construction in every reachable state: no autocorrelate, findPitch
\* or setter call, successful or failing, changes it.
InputLengthIsFixed == [][InputLengthStep]_vars

\* A detector for N = 2 after a findPitch call that failed on a longer window
\* under a changed configuration
InputLengthIsFixedWitness ==
    /\ kind = "PitchDetector" /\ inputLength = 2
    /\ op = "findPitch" /\ threw = "WrongLength" /\ Length(input) = 3
    /\ clarityThreshold # DefaultClarityThreshold

\* C17: the buffer supplier is invoked three times by the construction of an
\* Autocorrelator (lengths N_fft, 2 * N_fft, 2 * N_fft) and once more, for
\* length N, by the construction of a PitchDetector; after construction only
\* an autocorrelate call that omits the output buffer invokes it, once, and
\* neither findPitch nor autocorrelate with an output buffer nor a setter does.
SupplierInvocations ==
    /\ (op = "construct" /\ threw = "none") =>
           /\ fftSize >= 2 * inputLength
           /\ supplied = IF kind = "PitchDetector"
                         THEN <<fftSize, 2 * fftSize, 2 * fftSize, inputLength>>
                         ELSE <<fftSize, 2 * fftSize, 2 * fftSize>>
    /\ op = "autocorrelate(in)" => supplied = <<Length(input)>>
    /\ op \in {"findPitch", "autocorrelate(in, out)"} \cup SetterNames =>
           supplied = <<>>

\* An autocorrelate call without an output buffer asked for one of length N
SupplierInvocationsWitness ==
    /\ op = "autocorrelate(in)" /\ threw = "none"
    /\ inputLength = 2 /\ supplied = <<2>>
    /\ Length(result) = 2

\* The indices the scanning loop visits in array a
Visited(a) == 1 .. Length(a) - 2

\* A positively-sloped zero crossing of a at p: a[p-1] <= 0 < a[p]
PositiveCrossing(a, p) == Le(a[p - 1], Zero) /\ Gt(a[p], Zero)

\* A negatively-sloped zero crossing of a at q: a[q-1] > 0 >= a[q]
NegativeCrossing(a, q) == Gt(a[q - 1], Zero) /\ Le(a[q], Zero)

\* [p, q-1] is a positive lobe of a: p is a positive crossing and q the next
\* negative crossing after it
Lobe(a, p, q) ==
    /\ p < q /\ PositiveCrossing(a, p) /\ NegativeCrossing(a, q)
    /\ \A j \in p + 1 .. q - 1 : ~NegativeCrossing(a, j)

Lobes(a) == {pq \in Visited(a) \X Visited(a) : Lobe(a, pq[1], pq[2])}

\* k is the first index at which a attains its maximum over [p, q-1]
FirstMaximum(a, p, q, k) ==
    /\ k \in p .. q - 1
    /\ \A j \in p .. q - 1 : Le(a[j], a[k])
    /\ \A j \in p .. k - 1 : Lt(a[j], a[k])

LobeMaxima(a) ==
    {k \in Visited(a) :
        \E pq \in Lobes(a) : FirstMaximum(a, pq[1], pq[2], k)}

\* C18: the indices the scanner reports are the first indices at which the
\* array attains its maximum over a positive lobe [p, q-1], p being a
\* positive crossing and q the next negative crossing with 1 <= p < q <= N-2:
\* one index for every such lobe and none for any other position.
KeyMaximaAreLobeMaxima ==
    op = "getKeyMaximumIndices" =>
        /\ {probe.keyMaximumIndices[j] : j \in DOMAIN probe.keyMaximumIndices}
               = LobeMaxima(nsdfBuffer)
        /\ Len(probe.keyMaximumIndices) = Cardinality(Lobes(nsdfBuffer))

\* A lobe that attains its maximum twice: the first of the two indices is
\* reported
KeyMaximaAreLobeMaximaWitness ==
    /\ op = "getKeyMaximumIndices" /\ Len(probe.keyMaximumIndices) = 1
    /\ nsdfBuffer[probe.keyMaximumIndices[1]]
           = nsdfBuffer[probe.keyMaximumIndices[1] + 1]
    /\ Lt(nsdfBuffer[probe.keyMaximumIndices[1] - 1],
          nsdfBuffer[probe.keyMaximumIndices[1]])
    /\ Gt(nsdfBuffer[probe.keyMaximumIndices[1] - 1], Zero)

\* The scanner that resets maxIndex to -1 when a negative crossing appends
\* it: one iteration at index i
ResettingScanStep(a, i, s) ==
    IF Le(a[i - 1], Zero) /\ Gt(a[i], Zero)
    THEN [s EXCEPT !.lookingForMaximum = TRUE, !.maxIndex = i, !.max = a[i]]
    ELSE IF Gt(a[i - 1], Zero) /\ Le(a[i], Zero)
    THEN [s EXCEPT !.lookingForMaximum = FALSE,
                   !.maxIndex = IF s.maxIndex # -1 THEN -1 ELSE s.maxIndex,
                   !.keyIndices = IF s.maxIndex # -1
                                  THEN Append(s.keyIndices, s.maxIndex)
                                  ELSE s.keyIndices]
    ELSE IF s.lookingForMaximum /\ Gt(a[i], s.max)
    THEN [s EXCEPT !.max = a[i], !.maxIndex = i]
    ELSE s

RECURSIVE ResettingScanFrom(_, _, _)
ResettingScanFrom(a, i, s) ==
    IF i < Length(a) - 1
    THEN ResettingScanFrom(a, i + 1, ResettingScanStep(a, i, s))
    ELSE s

ResettingScan(a) ==
    ResettingScanFrom(a, 1, [keyIndices |-> <<>>, lookingForMaximum |-> FALSE,
                             max |-> NegInfinity, maxIndex |-> -1]).keyIndices

CoefficientAt(k) ==
    Add(Sub(Div(nsdfBuffer[k - 1], Two), nsdfBuffer[k]),
        Div(nsdfBuffer[k + 1], Two))

\* C20: at every key-maximum index k that findPitch gets from the scanner,
\* nsdf[k-1] < nsdf[k], nsdf[k+1] <= nsdf[k] and nsdf[k] > 0, so that the
\* coefficient a = y0/2 - y1 + y2/2 is strictly negative there; the a of the
\* refinement findPitch makes is strictly negative.
KeyMaximaAreStrictPeaks ==
    FindPitchReturned =>
        /\ \A j \in DOMAIN probe.keyMaximumIndices :
               /\ Lt(nsdfBuffer[probe.keyMaximumIndices[j] - 1],
                     nsdfBuffer[probe.keyMaximumIndices[j]])
               /\ Le(nsdfBuffer[probe.keyMaximumIndices[j] + 1],
                     nsdfBuffer[probe.keyMaximumIndices[j]])
               /\ Gt(nsdfBuffer[probe.keyMaximumIndices[j]], Zero)
               /\ Lt(CoefficientAt(probe.keyMaximumIndices[j]), Zero)
        /\ Len(probe.keyMaximumIndices) > 0 =>
               /\ probe.a = CoefficientAt(probe.resultIndex)
               /\ Lt(probe.a, Zero)

\* A refined key maximum whose right neighbour equals it and lies in the same
\* lobe: the coefficient is negative by the left neighbour alone
KeyMaximaAreStrictPeaksWitness ==
    /\ FindPitchReturned /\ Len(probe.keyMaximumIndices) > 0
    /\ nsdfBuffer[probe.resultIndex + 1] = nsdfBuffer[probe.resultIndex]
    /\ Lt(probe.a, Zero)

\* p is a positive crossing the scanning loop visits that no negative crossing
\* at an index up to N - 2 closes
OpenLobe(a, p) ==
    /\ p \in Visited(a) /\ PositiveCrossing(a, p)
    /\ \A q \in p + 1 .. Length(a) - 2 : ~NegativeCrossing(a, q)

\* C21: when the scan reaches its last index N - 2 while still looking for a
\* maximum (a positive crossing p with no negative crossing at an index from
\* p + 1 to N - 2), no index from p on is reported, even when the array has
\* there its largest value after index 0.
OpenLobeNotReported ==
    op = "getKeyMaximumIndices" =>
        \A p \in Visited(nsdfBuffer) :
            OpenLobe(nsdfBuffer, p) =>
                \A j \in DOMAIN probe.keyMaximumIndices :
                    probe.keyMaximumIndices[j] < p

\* A key maximum of 1/2 is reported, and the open lobe after it, which
\* reaches 1 and is closed only at the last index, is not
OpenLobeNotReportedWitness ==
    /\ op = "getKeyMaximumIndices" /\ Len(probe.keyMaximumIndices) = 1
    /\ \E p \in Visited(nsdfBuffer) :
           /\ OpenLobe(nsdfBuffer, p)
           /\ \E k \in p .. Length(nsdfBuffer) - 2 :
                  /\ \A i \in 1 .. Length(nsdfBuffer) - 1 :
                         Le(nsdfBuffer[i], nsdfBuffer[k])
                  /\ Gt(nsdfBuffer[k], nsdfBuffer[probe.keyMaximumIndices[1]])
    /\ Le(nsdfBuffer[Length(nsdfBuffer) - 1], Zero)

\* The indices of the run of positive values of a that starts at index 0
InitialRun(a) ==
    {i \in DOMAIN a : \A j \in 0 .. i : Gt(a[j], Zero)}

\* C22: the lobe that contains index 0 yields no key maximum: every reported
\* index lies at or after a positive crossing at an index >= 1, so that a
\* negative crossing with no positive crossing before it appends nothing, and
\* neither index 0 nor an index of the run of positive values starting at
\* nsdf[0] > 0 is reported.
InitialLobeNotReported ==
    op = "getKeyMaximumIndices" =>
        \A j \in DOMAIN probe.keyMaximumIndices :
            /\ \E p \in 1 .. probe.keyMaximumIndices[j] :
                   PositiveCrossing(nsdfBuffer, p)
            /\ probe.keyMaximumIndices[j] # 0
            /\ probe.keyMaximumIndices[j] \notin InitialRun(nsdfBuffer)

\* The array rises from nsdf[0] > 0 to its largest value at index 1 and has a
\* negative crossing after it, and the only index reported is that of a later,
\* lower lobe
InitialLobeNotReportedWitness ==
    /\ op = "getKeyMaximumIndices" /\ Len(probe.keyMaximumIndices) = 1
    /\ {0, 1} \subseteq InitialRun(nsdfBuffer)
    /\ Lt(nsdfBuffer[0], nsdfBuffer[1])
    /\ \E q \in Visited(nsdfBuffer) :
           NegativeCrossing(nsdfBuffer, q) /\ q < probe.keyMaximumIndices[1]
    /\ Lt(nsdfBuffer[probe.keyMaximumIndices[1]], nsdfBuffer[1])

\* m'(t) of window x: the sum of x[j]^2 + x[j + t]^2 over j = 0 .. N - 1 - t
MPrime(x, t) ==
    SumRange([j \in 0 .. Length(x) - 1 - t |->
                 Add(Mul(x[j], x[j]), Mul(x[j + t], x[j + t]))],
             0, Length(x) - 1 - t)

\* C23: at the start of every iteration t of the NSDF loop the running m is
\* m'(t), the sum of input[j]^2 + input[j + t]^2 over j = 0 .. N - 1 - t,
\* starting from m'(0) = 2 * r'(0); the loop runs through all N lags or ends
\* at the first lag t with m'(t) = 0.
RunningMIsMPrime ==
    (FindPitchReturned /\ ~probe.gated) =>
        /\ \A t \in 0 .. Len(probe.divisors) - 1 :
               probe.divisors[t + 1] = MPrime(input, t)
        /\ Len(probe.divisors) <= Length(input)
        /\ Len(probe.divisors) > 0 =>
               probe.divisors[1] = Mul(Two, LinearAutocorrelation(input, 0))
        /\ Len(probe.divisors) < Length(input) =>
               MPrime(input, Len(probe.divisors)) = Zero

\* A window whose loop made a division at every lag, with an m that fell from
\* 2 * r'(0) at the first lag and stayed as it was at the second
RunningMIsMPrimeWitness ==
    /\ FindPitchReturned /\ ~probe.gated
    /\ Length(input) >= 4 /\ Len(probe.divisors) = Length(input)
    /\ Lt(probe.divisors[2], probe.divisors[1])
    /\ probe.divisors[3] = probe.divisors[2]
    /\ probe.divisors[1] = Mul(Two, SquareSum(input))

\* C24: during the NSDF loop the running m never increases from one iteration
\* to the next, and it is strictly positive at every iteration in which a
\* division by m is made.
RunningMNeverIncreases ==
    (FindPitchReturned /\ ~probe.gated) =>
        /\ \A t \in 1 .. Len(probe.divisors) - 1 :
               Le(probe.divisors[t + 1], probe.divisors[t])
        /\ \A t \in DOMAIN probe.divisors : Gt(probe.divisors[t], Zero)

\* An m that stays, then falls, then reaches 0 before the last lag, where the
\* loop ends without a division
RunningMNeverIncreasesWitness ==
    /\ FindPitchReturned /\ ~probe.gated
    /\ Len(probe.divisors) >= 3 /\ Len(probe.divisors) < Length(input)
    /\ probe.divisors[2] = probe.divisors[1]
    /\ Lt(probe.divisors[3], probe.divisors[2])

\* C25: after the NSDF stage nsdf[0] = 1 for every input that is not all
\* zeros, and -1 <= nsdf[t] <= 1 for every lag t in [0, N); equivalently
\* |2 * r'(t)| <= m'(t) wherever m'(t) > 0.
NsdfInUnitInterval ==
    (FindPitchReturned /\ ~probe.gated) =>
        /\ ~Silent(input) => nsdfBuffer[0] = One
        /\ \A t \in DOMAIN nsdfBuffer :
               /\ Le(FromInt(-1), nsdfBuffer[t]) /\ Le(nsdfBuffer[t], One)
               /\ Gt(MPrime(input, t), Zero) =>
                      /\ Le(Mul(Two, LinearAutocorrelation(input, t)),
                            MPrime(input, t))
                      /\ Le(Neg(MPrime(input, t)),
                            Mul(Two, LinearAutocorrelation(input, t)))
                      /\ nsdfBuffer[t] = Div(Mul(Two, LinearAutocorrelation(input, t)),
                                             MPrime(input, t))

\* An NSDF that is 1 at lag 0, reaches -1 at one lag and lies strictly
\* between 0 and 1 at another
NsdfInUnitIntervalWitness ==
    /\ FindPitchReturned /\ ~probe.gated /\ ~Silent(input)
    /\ nsdfBuffer[0] = One
    /\ \E t \in DOMAIN nsdfBuffer : nsdfBuffer[t] = FromInt(-1)
    /\ \E t \in DOMAIN nsdfBuffer :
           Gt(nsdfBuffer[t], Zero) /\ Lt(nsdfBuffer[t], One)

\* C26: once the running m is <= 0 at a lag t0, nsdf[t] is exactly 0 for
\* every t in [t0, N) and no division is made for those lags; for a window of
\* zeros m = 0 from the start, no division is made and all N entries are 0.
ZeroOnceMIsZero ==
    (FindPitchReturned /\ ~probe.gated) =>
        /\ \A t \in DOMAIN nsdfBuffer :
               t >= Len(probe.divisors) => nsdfBuffer[t] = Zero
        /\ \A t0 \in DOMAIN nsdfBuffer :
               Le(MPrime(input, t0), Zero) =>
                   /\ Len(probe.divisors) <= t0
                   /\ \A t \in t0 .. Length(nsdfBuffer) - 1 : nsdfBuffer[t] = Zero
        /\ Silent(input) =>
               /\ probe.divisors = <<>>
               /\ nsdfBuffer = ArrayOf(Length(input), Zero)

\* A loop that made divisions at two lags or more and left two lags or more
\* to the zero fill, in a buffer that was created with holes
ZeroOnceMIsZeroWitness ==
    /\ FindPitchReturned /\ ~probe.gated
    /\ bufferSupplier = "NumberArray"
    /\ Len(probe.divisors) >= 2
    /\ Length(nsdfBuffer) - Len(probe.divisors) >= 2
    /\ nsdfBuffer[1] # Zero
    /\ nsdfBuffer[Length(nsdfBuffer) - 1] = Zero

\* The number of numbers a transform buffer holds: a symbolic spectrum of a
\* signal of n samples stands for n complex numbers
TransformLength(tb) ==
    IF tb.form = "raw" THEN Length(tb.data) ELSE 2 * Length(tb.data)

\* C27: for every N >= 1 the constructed object has an FFT size N_fft =
\* ceilPow2(2 * N) that is a power of two with 2 <= 2 * N <= N_fft < 4 * N,
\* and its padded-input, transform and inverse buffers have lengths N_fft,
\* 2 * N_fft and 2 * N_fft, right after construction and after any call.
BufferLengths ==
    kind # "none" =>
        /\ inputLength >= 1
        /\ fftSize = ceilPow2(2 * inputLength) /\ IsPowerOfTwo(fftSize)
        /\ 2 <= 2 * inputLength /\ 2 * inputLength <= fftSize
        /\ fftSize < 4 * inputLength
        /\ Length(paddedInputBuffer) = fftSize
        /\ TransformLength(transformBuffer) = 2 * fftSize
        /\ Length(inverseBuffer) = 2 * fftSize

\* An autocorrelator for N = 5, whose FFT size 16 is neither 2 * N nor the
\* next power of two after N, after a call that wrote all three buffers
BufferLengthsWitness ==
    /\ kind = "Autocorrelator" /\ inputLength = 5 /\ fftSize = 16
    /\ AutocorrelateReturned /\ ~Silent(input)
    /\ transformBuffer.form = "power"
    /\ Length(inverseBuffer) = 32

\* C28: when findPitch refines the selected key maximum k, the refined lag x*
\* lies in [k - 1/2, k + 1/2] and the interpolated value y* is >= nsdf[k];
\* hence x* > 0 and, for a positive sample rate, the returned pitch is finite,
\* strictly positive and at most twice the sample rate.
RefinedLagNearIndex ==
    (FindPitchReturned /\ Len(probe.keyMaximumIndices) > 0) =>
        /\ Le(Sub(FromInt(probe.resultIndex), Num(1, 2)), probe.refined[1])
        /\ Le(probe.refined[1], Add(FromInt(probe.resultIndex), Num(1, 2)))
        /\ Ge(probe.refined[2], nsdfBuffer[probe.resultIndex])
        /\ Gt(probe.refined[1], Zero)
        /\ Gt(sampleRate, Zero) =>
               /\ IsFinite(result[1]) /\ Gt(result[1], Zero)
               /\ Le(result[1], Mul(Two, sampleRate))
               /\ result[1] = Div(sampleRate, probe.refined[1])

\* A key maximum at index 2 whose right neighbour equals it: the refined lag
\* is 5/2, the upper end of the interval, the interpolated value exceeds
\* nsdf[2], and the pitch at sample rate 3 is 6/5
RefinedLagNearIndexWitness ==
    /\ FindPitchReturned /\ Len(probe.keyMaximumIndices) > 0
    /\ probe.resultIndex = 2
    /\ probe.refined[1] = Num(5, 2)
    /\ Gt(probe.refined[2], nsdfBuffer[2])
    /\ sampleRate = FromInt(3) /\ result[1] = Num(6, 5)

\* C29: for a positive sample rate the pitch findPitch returns is 0 if and
\* only if the clarity is 0: (0, 0) is returned exactly when the volume gate
\* fires or there is no key maximum, and every other result has pitch > 0 and
\* clarity > 0.
SentinelIsZeroZero ==
    (FindPitchReturned /\ Gt(sampleRate, Zero)) =>
        /\ Len(result) = 2
        /\ result[1] = Zero <=> result[2] = Zero
        /\ result = <<Zero, Zero>> <=>
               (probe.gated \/ Len(probe.keyMaximumIndices) = 0)
        /\ result # <<Zero, Zero>> =>
               Gt(result[1], Zero) /\ Gt(result[2], Zero)

\* A pitch detected with a clarity threshold of 1, so that only a key maximum
\* equal to the highest one can be selected
SentinelIsZeroZeroWitness ==
    /\ FindPitchReturned /\ Gt(sampleRate, Zero)
    /\ clarityThreshold = One /\ ~probe.gated
    /\ Len(probe.keyMaximumIndices) >= 2
    /\ nsdfBuffer[probe.resultIndex] = probe.nMax
    /\ Gt(result[1], Zero) /\ Gt(result[2], Zero) /\ Lt(result[2], One)

\* A findPitch or autocorrelate step leaves the window of the pending call as
\* it was, a findPitch step leaves the configuration as it was, and a
\* findPitch step that returns at the volume gate returns (0, 0) and leaves
\* the NSDF buffer and the three scratch buffers as they were
BorrowingStep ==
    /\ (op = "pending" /\ Length(input) = inputLength
            /\ op' \in {"findPitch"} \cup AutocorrelateNames) =>
           input' = input
    /\ op' = "findPitch" => UNCHANGED config
    /\ (op' = "findPitch" /\ probe'.gated) =>
           /\ threw' = "none" /\ result' = <<Zero, Zero>>
           /\ UNCHANGED buffers

\* C30: findPitch and autocorrelate never write to the input window, and
\* findPitch never changes clarityThreshold, minVolumeAbsolute or
\* maxInputAmplitude; when findPitch returns (0, 0) because of the volume
\* gate, the NSDF buffer and the autocorrelator's scratch buffers are left
\* unchanged too.
CallsBorrowInput == [][BorrowingStep]_vars

\* A window with sound in it returned at the volume gate: the NSDF buffer
\* still has the holes it was created with and the transform buffer was never
\* written
CallsBorrowInputWitness ==
    /\ FindPitchReturned /\ probe.gated /\ ~Silent(input)
    /\ result = <<Zero, Zero>>
    /\ Length(input) >= 2
    /\ nsdfBuffer = NewBuffer("NumberArray", Length(input))
    /\ transformBuffer.form = "raw"
    /\ minVolumeAbsolute = Num(1, 2)

=============================================================================
